---- MODULE Spec2Model ----
(***************************************************************************)
(* pdfmunge / pdfslice: page-range parsing, option handling and the        *)
(* per-page crop / slice / rotate loop of main.                            *)
(*                                                                         *)
(* Strings are sequences of one-character strings.  Python integers are    *)
(* unbounded, so Int is used as is.  Python 2 semantics apply (file(),     *)
(* pyPdf, integer results in the doctests): "/" on ints is floor division. *)
(***************************************************************************)
EXTENDS Integers, Sequences, FiniteSets, TLC

VARIABLES call, ret, prog, assertions, argv, doc, pc, options, input, input2, output, page_nums, status

vars == <<call, ret, prog, assertions, argv, doc, pc, options, input, input2, output, page_nums, status>>

mainvars == <<prog, assertions, argv, doc, pc, options, input, input2, output, page_nums, status>>

(***************************************************************************)
(* Bounds of the model.                                                    *)
(***************************************************************************)
MaxRangeLen == 5
MaxBoundsLen == 7
MaxPages == 3
MaxTokens == 3
MaxNum == 3
CoordMax == 3
MarginMax == 2

(***************************************************************************)
(* Python string primitives used by the parsers.                           *)
(***************************************************************************)
Digits == <<"0", "1", "2", "3", "4", "5", "6", "7", "8", "9">>

IsDigit(c) == \E d \in 1..10 : Digits[d] = c

DigitVal(c) == (CHOOSE d \in 1..10 : Digits[d] = c) - 1

IsSpace(c) == c = " "

\* str.find(c) > -1
contains(s, c) == \E i \in 1..Len(s) : s[i] = c

\* str.find(c), 1-based; only used when contains(s, c)
find(s, c) == CHOOSE i \in 1..Len(s) : s[i] = c /\ \A j \in 1..(i - 1) : s[j] # c

\* str.split(sep): every occurrence of sep cuts; empty pieces are kept
RECURSIVE split(_, _)
split(s, sep) ==
  IF contains(s, sep)
    THEN <<SubSeq(s, 1, find(s, sep) - 1)>> \o split(SubSeq(s, find(s, sep) + 1, Len(s)), sep)
    ELSE <<s>>

\* the whitespace stripping int() performs on its argument
RECURSIVE lstrip(_)
lstrip(s) == IF s # <<>> /\ IsSpace(Head(s)) THEN lstrip(Tail(s)) ELSE s

RECURSIVE rstrip(_)
rstrip(s) == IF s # <<>> /\ IsSpace(s[Len(s)]) THEN rstrip(SubSeq(s, 1, Len(s) - 1)) ELSE s

strip(s) == rstrip(lstrip(s))

RECURSIVE DecimalValue(_)
DecimalValue(ds) ==
  IF ds = <<>> THEN 0 ELSE 10 * DecimalValue(SubSeq(ds, 1, Len(ds) - 1)) + DigitVal(ds[Len(ds)])

\* int(s): surrounding whitespace ignored, optional sign, one or more digits;
\* anything else raises ValueError
int(s) ==
  LET t == strip(s)
      signed == t # <<>> /\ Head(t) \in {"-", "+"}
      ds == IF signed THEN Tail(t) ELSE t
      good == ds # <<>> /\ \A i \in 1..Len(ds) : IsDigit(ds[i])
  IN IF ~good THEN [err |-> "ValueError", val |-> 0]
     ELSE [err |-> "none",
           val |-> IF signed /\ Head(t) = "-" THEN 0 - DecimalValue(ds) ELSE DecimalValue(ds)]

\* range with the start taken 1-indexed
range_from_one(start, end) == [i \in 1..(IF end > start + 1 THEN end - start - 1 ELSE 0) |-> start + i]

\* list(range(start, end))
range(start, end) == [i \in 1..(IF end > start THEN end - start ELSE 0) |-> start + i - 1]

(***************************************************************************)
(* parse_bounds and parse_range (identical in pdfmunge.py and pdfslice.py) *)
(***************************************************************************)
RECURSIVE parse_bounds_from(_)
parse_bounds_from(vals) ==
  IF vals = <<>> THEN [err |-> "none", val |-> <<>>]
  ELSE LET n == int(Head(vals))
           rest == parse_bounds_from(Tail(vals))
       IN IF n.err # "none" THEN [err |-> n.err, val |-> <<>>]
          ELSE IF rest.err # "none" THEN rest
          ELSE [err |-> "none", val |-> <<n.val>> \o rest.val]

parse_bounds(bounds_string) == parse_bounds_from(split(bounds_string, ","))

\* one iteration of the loop of parse_range: the indices cur_range adds
expand(cur_range) ==
  IF contains(cur_range, "-")
    THEN LET parts == split(cur_range, "-")
         IN IF Len(parts) # 2 THEN [err |-> "ValueError", val |-> <<>>]
            ELSE LET start == int(parts[1])
                     end == int(parts[2])
                 IN IF start.err # "none" \/ end.err # "none"
                      THEN [err |-> "ValueError", val |-> <<>>]
                      ELSE [err |-> "none", val |-> range(start.val - 1, end.val)]
    ELSE LET n == int(cur_range)
         IN IF n.err # "none" THEN [err |-> "ValueError", val |-> <<>>]
            ELSE [err |-> "none", val |-> <<n.val - 1>>]

RECURSIVE parse_range_from(_)
parse_range_from(ranges) ==
  IF ranges = <<>> THEN [err |-> "none", val |-> <<>>]
  ELSE LET cur == expand(Head(ranges))
           rest == parse_range_from(Tail(ranges))
       IN IF cur.err # "none" THEN cur
          ELSE IF rest.err # "none" THEN rest
          ELSE [err |-> "none", val |-> cur.val \o rest.val]

parse_range(range_string) == parse_range_from(split(range_string, ","))

(***************************************************************************)
(* Python dictionaries and lists.                                          *)
(***************************************************************************)
\* d[k] = v
set(d, k, v) == [x \in (DOMAIN d) \cup {k} |-> IF x = k THEN v ELSE d[x]]

\* k in d
has(d, k) == k \in DOMAIN d

\* list(reversed(l))
RECURSIVE reversed(_)
reversed(l) == IF l = <<>> THEN <<>> ELSE reversed(Tail(l)) \o <<Head(l)>>

\* x in l
in(x, l) == \E i \in 1..Len(l) : l[i] = x

\* division rounding toward zero
trunc_div(a, b) == IF a >= 0 THEN a \div b ELSE 0 - ((0 - a) \div b)

\* a / b on Python 2 ints: floor division
py_div(a, b) == a \div b

(***************************************************************************)
(* pyPdf objects as the programs use them.  A page is identified by the    *)
(* reader it came from and its index; it carries a mediaBox and a          *)
(* rotation in degrees.                                                    *)
(***************************************************************************)
None == [reader |-> 0, num |-> 0 - 1, mediaBox |-> <<>>, rotation |-> 0]

\* pyPdf.generic.RectangleObject(arr): "assert len(arr) == 4", which an
\* interpreter run with -O skips
RectangleObject(arr) ==
  IF Len(arr) # 4 /\ assertions THEN [err |-> "AssertionError", val |-> <<>>]
  ELSE [err |-> "none", val |-> arr]

\* page.rotateCounterClockwise(90)
rotateCounterClockwise(page, angle) == [page EXCEPT !.rotation = page.rotation - angle]

\* list(mediaBox.lowerLeft) + list(mediaBox.upperRight)
corners(mediaBox) == <<mediaBox[1], mediaBox[2], mediaBox[3], mediaBox[4]>>

(***************************************************************************)
(* pdfmunge.py: crop and rotate                                            *)
(***************************************************************************)
\* crop with the parity test of 1-indexed pages
crop_one_indexed(page, page_num, opts) ==
  IF page = None THEN [err |-> "none", page |-> page]
  ELSE LET bounds == IF has(opts, "oddbounds") /\ page_num % 2 = 1
                       THEN opts["oddbounds"] ELSE opts["bounds"]
           rect == RectangleObject(bounds)
       IN IF rect.err # "none" THEN [err |-> rect.err, page |-> page]
          ELSE [err |-> "none", page |-> [page EXCEPT !.mediaBox = rect.val]]

crop(page, page_num, opts) ==
  IF page = None THEN [err |-> "none", page |-> page]
  ELSE LET bounds == IF has(opts, "oddbounds") /\ page_num % 2 = 0
                       THEN opts["oddbounds"] ELSE opts["bounds"]
           rect == RectangleObject(bounds)
       IN IF rect.err # "none" THEN [err |-> rect.err, page |-> page]
          ELSE [err |-> "none", page |-> [page EXCEPT !.mediaBox = rect.val]]

\* rotate taking the configured bounds for granted, as calculate_bounds does
rotate_needing_bounds(page, page2, opts) ==
  IF ~has(opts, "bounds")
    THEN [err |-> "KeyError", page |-> page, page2 |-> page2]
  ELSE IF Len(page.mediaBox) < 4 \/ Len(page2.mediaBox) < 4
    THEN [err |-> "IndexError", page |-> page, page2 |-> page2]
  ELSE LET bounds == corners(page.mediaBox)
           bounds2 == corners(page2.mediaBox)
           b1 == [bounds EXCEPT ![2] = py_div(bounds[4] - bounds[2], 2) + bounds[2] - opts["margin"]]
           b2 == [bounds2 EXCEPT ![4] = py_div(bounds2[4] - bounds2[2], 2) + bounds2[2] + opts["margin"]]
       IN [err |-> "none",
           page |-> rotateCounterClockwise([page EXCEPT !.mediaBox = RectangleObject(b1).val], 90),
           page2 |-> rotateCounterClockwise([page2 EXCEPT !.mediaBox = RectangleObject(b2).val], 90)]

rotate(page, page2, opts) ==
  IF Len(page.mediaBox) < 4 \/ Len(page2.mediaBox) < 4
    THEN [err |-> "IndexError", page |-> page, page2 |-> page2]
  ELSE LET bounds == corners(page.mediaBox)
           bounds2 == corners(page2.mediaBox)
           b1 == [bounds EXCEPT ![2] = py_div(bounds[4] - bounds[2], 2) + bounds[2] - opts["margin"]]
           b2 == [bounds2 EXCEPT ![4] = py_div(bounds2[4] - bounds2[2], 2) + bounds2[2] + opts["margin"]]
       IN [err |-> "none",
           page |-> rotateCounterClockwise([page EXCEPT !.mediaBox = RectangleObject(b1).val], 90),
           page2 |-> rotateCounterClockwise([page2 EXCEPT !.mediaBox = RectangleObject(b2).val], 90)]

(***************************************************************************)
(* pdfslice.py: calculate_bounds                                           *)
(***************************************************************************)
calculate_bounds(pagenum, opts, top) ==
  LET odd == has(opts, "oddbounds") /\ pagenum % 2 = 0
  IN IF ~odd /\ ~has(opts, "bounds") THEN [err |-> "KeyError", val |-> <<>>]
     ELSE LET bounds == IF odd THEN opts["oddbounds"] ELSE opts["bounds"]
          IN IF opts["rotate"] = TRUE
               THEN IF Len(bounds) < 4 THEN [err |-> "IndexError", val |-> <<>>]
                    ELSE IF top
                      THEN [err |-> "none",
                            val |-> [bounds EXCEPT ![2] =
                                       py_div(bounds[4] - bounds[2], 2) + bounds[2] - opts["margin"]]]
                      ELSE [err |-> "none",
                            val |-> [bounds EXCEPT ![4] =
                                       py_div(bounds[4] - bounds[2], 2) + bounds[2] + opts["margin"]]]
               ELSE [err |-> "none", val |-> bounds]

(***************************************************************************)
(* handle_options (identical in pdfmunge.py and pdfslice.py).  argv is     *)
(* taken as getopt.getopt returns it: the list of (option, argument)       *)
(* pairs and the list of remaining arguments.                              *)
(***************************************************************************)
\* the option an (opt, arg) pair sets: the if / elif chain over opt
option_key(opt) ==
  CASE opt \in {"-r", "--rotate"} -> "rotate"
    [] opt \in {"-b", "--bounds"} -> "bounds"
    [] opt \in {"-o", "--oddbounds"} -> "oddbounds"
    [] opt \in {"-e", "--exclude"} -> "exclude"
    [] opt \in {"-i", "--intact"} -> "intact"
    [] opt \in {"-m", "--margin"} -> "margin"
    [] OTHER -> "unhandled"

\* the value the branch for key converts arg to
option_value(key, arg) ==
  CASE key \in {"bounds", "oddbounds"} -> parse_bounds(arg)
    [] key \in {"exclude", "intact"} -> parse_range(arg)
    [] key = "margin" -> int(arg)
    [] OTHER -> [err |-> "none", val |-> TRUE]

\* options[key] = value, unless the conversion raised
store(opts, key, parsed) ==
  IF key = "unhandled" THEN [err |-> "AssertionError", options |-> opts]
  ELSE IF parsed.err # "none" THEN [err |-> parsed.err, options |-> opts]
  ELSE [err |-> "none", options |-> set(opts, key, parsed.val)]

\* the body of the loop over opts, for one (opt, arg) pair
handle_opt(opts, opt, arg) == store(opts, option_key(opt), option_value(option_key(opt), arg))

\* for opt, arg in opts
RECURSIVE handle_opts(_, _)
handle_rest(r, rest) == IF r.err # "none" THEN r ELSE handle_opts(r.options, rest)

handle_opts(opts, optlist) ==
  IF optlist = <<>> THEN [err |-> "none", options |-> opts]
  ELSE handle_rest(handle_opt(opts, Head(optlist).opt, Head(optlist).arg), Tail(optlist))

\* handle_options without the check of oddbounds against bounds
handle_options_unchecked(av) ==
  LET defaults == [rotate |-> FALSE, exclude |-> <<>>, intact |-> <<>>, margin |-> 0]
      looped == handle_opts(defaults, av.opts)
  IN IF looped.err # "none" THEN looped
     ELSE IF Len(av.args) < 2 THEN [err |-> "GetoptError", options |-> looped.options]
     ELSE [err |-> "none",
           options |-> set(set(looped.options, "infile", av.args[1]), "outfile", av.args[2])]

handle_options(av) ==
  LET defaults == [rotate |-> FALSE, exclude |-> <<>>, intact |-> <<>>, margin |-> 0]
      looped == handle_opts(defaults, av.opts)
  IN IF looped.err # "none" THEN looped
     ELSE IF Len(av.args) < 2 THEN [err |-> "GetoptError", options |-> looped.options]
     ELSE LET named == set(set(looped.options, "infile", av.args[1]), "outfile", av.args[2])
          IN IF has(named, "oddbounds") /\ ~has(named, "bounds")
               THEN [err |-> "GetoptError", options |-> named]
               ELSE [err |-> "none", options |-> named]

(***************************************************************************)
(* The loop body of main, per program.  Each returns the two page objects  *)
(* as the body leaves them and the pages it appended to the writer.        *)
(***************************************************************************)
\* the loop body with the intact test dropped
munge_page_ignoring_intact(page, page2, page_num, opts) ==
  LET c1 == IF has(opts, "bounds") THEN crop(page, page_num, opts)
            ELSE [err |-> "none", page |-> page]
      c2 == IF has(opts, "bounds") /\ c1.err = "none" THEN crop(page2, page_num, opts)
            ELSE [err |-> "none", page |-> page2]
  IN IF c1.err # "none"
       THEN [err |-> c1.err, page |-> c1.page, page2 |-> page2, added |-> <<>>]
     ELSE IF c2.err # "none"
       THEN [err |-> c2.err, page |-> c1.page, page2 |-> c2.page, added |-> <<>>]
     ELSE LET r == IF opts["rotate"] THEN rotate(c1.page, c2.page, opts)
                   ELSE [err |-> "none", page |-> c1.page, page2 |-> c2.page]
          IN IF r.err # "none"
               THEN [err |-> r.err, page |-> c1.page, page2 |-> c2.page, added |-> <<>>]
               ELSE [err |-> "none", page |-> r.page, page2 |-> r.page2,
                     added |-> <<r.page>> \o (IF r.page2 # None THEN <<r.page2>> ELSE <<>>)]

\* the loop body adding the second page before the first
munge_page_bottom_first(page, page2, page_num, opts) ==
  LET r == munge_page_ignoring_intact(page, page2, page_num, opts)
  IN IF in(page_num, opts["intact"])
       THEN [err |-> "none", page |-> page, page2 |-> page2, added |-> <<page>>]
       ELSE [r EXCEPT !.added = reversed(r.added)]

\* pdfmunge.py, lines 80-94 (page_num is already known not to be excluded)
munge_page(page, page2, page_num, opts) ==
  IF in(page_num, opts["intact"])
    THEN [err |-> "none", page |-> page, page2 |-> page2, added |-> <<page>>]
  ELSE LET c1 == IF has(opts, "bounds") THEN crop(page, page_num, opts)
                 ELSE [err |-> "none", page |-> page]
           c2 == IF has(opts, "bounds") /\ c1.err = "none" THEN crop(page2, page_num, opts)
                 ELSE [err |-> "none", page |-> page2]
       IN IF c1.err # "none"
            THEN [err |-> c1.err, page |-> c1.page, page2 |-> page2, added |-> <<>>]
          ELSE IF c2.err # "none"
            THEN [err |-> c2.err, page |-> c1.page, page2 |-> c2.page, added |-> <<>>]
          ELSE LET r == IF opts["rotate"] THEN rotate(c1.page, c2.page, opts)
                        ELSE [err |-> "none", page |-> c1.page, page2 |-> c2.page]
               IN IF r.err # "none"
                    THEN [err |-> r.err, page |-> c1.page, page2 |-> c2.page, added |-> <<>>]
                    ELSE [err |-> "none", page |-> r.page, page2 |-> r.page2,
                          added |-> <<r.page>> \o (IF r.page2 # None THEN <<r.page2>> ELSE <<>>)]

\* pdfslice.py, lines 79-98
slice_page(page, page2, pagenum, opts) ==
  IF in(pagenum, opts["exclude"])
    THEN [err |-> "none", page |-> page, page2 |-> page2, added |-> <<>>]
  ELSE IF in(pagenum, opts["intact"])
    THEN [err |-> "none", page |-> page, page2 |-> page2, added |-> <<page>>]
  ELSE IF opts["rotate"] = TRUE
    THEN LET top == calculate_bounds(pagenum, opts, TRUE)
             bottom == calculate_bounds(pagenum, opts, FALSE)
             fail(e) == [err |-> e, page |-> page, page2 |-> page2, added |-> <<>>]
         IN IF top.err # "none" THEN fail(top.err)
            ELSE IF RectangleObject(top.val).err # "none" THEN fail(RectangleObject(top.val).err)
            ELSE LET p1 == rotateCounterClockwise(
                             [page EXCEPT !.mediaBox = RectangleObject(top.val).val], 90)
                     p2 == rotateCounterClockwise(
                             [page2 EXCEPT !.mediaBox = RectangleObject(bottom.val).val], 90)
                 IN [err |-> "none", page |-> p1, page2 |-> p2, added |-> <<p1, p2>>]
  ELSE IF has(opts, "bounds")
    THEN LET b == calculate_bounds(pagenum, opts, FALSE)
         IN IF RectangleObject(b.val).err # "none"
              THEN [err |-> RectangleObject(b.val).err, page |-> page, page2 |-> page2,
                    added |-> <<>>]
              ELSE LET p1 == [page EXCEPT !.mediaBox = RectangleObject(b.val).val]
                   IN [err |-> "none", page |-> p1, page2 |-> page2, added |-> <<p1>>]
  ELSE [err |-> "none", page |-> page, page2 |-> page2, added |-> <<page>>]

\* pyPdf.PdfFileReader(input_stream): the page objects of one reader
PdfFileReader(file, id) == [i \in 1..Len(file) |-> [file[i] EXCEPT !.reader = id]]

\* page_nums without the filter
all_pages(nums, exclude) == nums

\* page_nums of pdfmunge (lines 77-78); pdfslice iterates the whole range
RECURSIVE not_excluded(_, _)
not_excluded(nums, exclude) ==
  IF nums = <<>> THEN <<>>
  ELSE (IF in(Head(nums), exclude) THEN <<>> ELSE <<Head(nums)>>)
       \o not_excluded(Tail(nums), exclude)

(***************************************************************************)
(* Inputs of a run.                                                        *)
(***************************************************************************)
Absent == <<"absent">>

BoundsArgs ==
  { <<"4", ",", "4", ",", "1", "0", ",", "1", "0">>,
    <<"4", ",", "1", "0", ",", "1", "0", ",", "5">>,
    <<"1", ",", "2", ",", "3">>,
    <<"1", ",", "2", ",", "3", ",", "9", ",", "5">> }

OddboundsArgs == { <<"2", ",", " ", "2", ",", "8", ",", "8">> }

ExcludeArgs == { <<"2">>, <<"1", "-", "2">>, <<"2", "-", "1">>, <<"1", "-">> }

IntactArgs == { <<"2">>, <<"2", ",", " ", "3">> }

MarginArgs == { <<"2">>, <<"-", "1">>, <<"x">> }

item(name, choice) == IF choice = Absent THEN <<>> ELSE <<[opt |-> name, arg |-> choice]>>

Argvs ==
  { [opts |-> IF short
                THEN item("-r", r) \o item("-b", b) \o item("-o", o)
                     \o item("-e", e) \o item("-i", i) \o item("-m", m)
                ELSE reversed(item("--rotate", r) \o item("--bounds", b) \o item("--oddbounds", o)
                     \o item("--exclude", e) \o item("--intact", i) \o item("--margin", m)),
     args |-> SubSeq(<<"infile", "outfile">>, 1, n)] :
      r \in {Absent, <<>>}, b \in {Absent} \cup BoundsArgs, o \in {Absent} \cup OddboundsArgs,
      e \in {Absent} \cup ExcludeArgs, i \in {Absent} \cup IntactArgs,
      m \in {Absent} \cup MarginArgs, short \in BOOLEAN, n \in 1..2 }

Docs ==
  { [i \in 1..n |-> [reader |-> 0, num |-> i - 1,
                     mediaBox |-> IF (i + k) % 2 = 0 THEN <<0, 0, 20, 30>> ELSE <<0, 0, 21, 33>>,
                     rotation |-> 0]] : n \in 0..MaxPages, k \in 0..1 }

(***************************************************************************)
(* One run of main.                                                        *)
(***************************************************************************)
Init ==
  /\ call = [fn |-> "main"]
  /\ ret = [done |-> FALSE]
  /\ prog \in {"pdfmunge", "pdfslice"}
  /\ assertions \in BOOLEAN
  /\ argv \in Argvs
  /\ doc \in Docs
  /\ pc = "start"
  /\ options = <<>>
  /\ input = <<>>
  /\ input2 = <<>>
  /\ output = <<>>
  /\ page_nums = <<>>
  /\ status = "running"

\* lines 52-57: options = handle_options(argv); GetoptError is caught and
\* main returns 2, any other exception leaves main
HandleOptions ==
  /\ pc = "start"
  /\ LET r == handle_options(argv)
     IN IF r.err = "none"
          THEN /\ options' = r.options
               /\ pc' = "open"
               /\ status' = status
          ELSE /\ options' = options
               /\ pc' = "done"
               /\ status' = IF r.err = "GetoptError" THEN "return 2" ELSE r.err
  /\ UNCHANGED <<call, ret, prog, assertions, argv, doc, input, input2, output, page_nums>>

\* lines 60-74 without an IOError, and the page list the loop will walk
OpenFiles ==
  /\ pc = "open"
  /\ input' = PdfFileReader(doc, 1)
  /\ input2' = IF options["rotate"] = TRUE THEN PdfFileReader(doc, 2) ELSE <<>>
  /\ output' = <<>>
  /\ page_nums' = IF prog = "pdfmunge"
                    THEN not_excluded(range(0, Len(doc)), options["exclude"])
                    ELSE range(0, Len(doc))
  /\ pc' = "loop"
  /\ UNCHANGED <<call, ret, prog, assertions, argv, doc, options, status>>

\* lines 65-67 and 72-74: the input or the output file cannot be opened
OpenFails ==
  /\ pc = "open"
  /\ pc' = "done"
  /\ status' = "return 1"
  /\ \/ UNCHANGED <<input, input2>>
     \/ /\ input' = PdfFileReader(doc, 1)
        /\ input2' = IF options["rotate"] = TRUE THEN PdfFileReader(doc, 2) ELSE <<>>
  /\ UNCHANGED <<call, ret, prog, assertions, argv, doc, options, output, page_nums>>

\* one iteration of the page loop
ProcessPage ==
  /\ pc = "loop"
  /\ page_nums # <<>>
  /\ LET page_num == Head(page_nums)
         page == input[page_num + 1]
         page2 == IF options["rotate"] THEN input2[page_num + 1] ELSE None
         r == IF prog = "pdfmunge" THEN munge_page(page, page2, page_num, options)
              ELSE slice_page(page, page2, page_num, options)
     IN /\ input' = [input EXCEPT ![page_num + 1] = r.page]
        /\ input2' = IF options["rotate"] THEN [input2 EXCEPT ![page_num + 1] = r.page2]
                     ELSE input2
        /\ output' = output \o r.added
        /\ IF r.err = "none"
             THEN /\ page_nums' = Tail(page_nums)
                  /\ UNCHANGED <<pc, status>>
             ELSE /\ page_nums' = page_nums
                  /\ pc' = "done"
                  /\ status' = r.err
  /\ UNCHANGED <<call, ret, prog, assertions, argv, doc, options>>

\* lines 96-102: output.write(output_stream); return 0
WriteOutput ==
  /\ pc = "loop"
  /\ page_nums = <<>>
  /\ pc' = "done"
  /\ status' = "return 0"
  /\ UNCHANGED <<call, ret, prog, assertions, argv, doc, options, input, input2, output, page_nums>>

Next == HandleOptions \/ OpenFiles \/ OpenFails \/ ProcessPage \/ WriteOutput

Spec == Init /\ [][Next]_vars

(***************************************************************************)
(* Single calls of the pure functions, on inputs drawn from bounded sets.  *)
(***************************************************************************)
StringsOver(chars, n) == UNION {[1..k -> chars] : k \in 0..n}

RangeChars == {Digits[d + 1] : d \in 0..MaxNum} \cup {"-", ",", " "}

RangeStrings == StringsOver(RangeChars, MaxRangeLen)

BoundsChars == {"1", "-", ",", " "}

BoundsStrings == StringsOver(BoundsChars, MaxBoundsLen)

Rects == {<<l, b, 5, t>> : l \in 0..1, b \in (0 - CoordMax)..CoordMax, t \in (0 - CoordMax)..CoordMax}

Margins == (0 - MarginMax)..MarginMax

GeomOptions ==
  { [rotate |-> r, margin |-> m, bounds |-> b] : r \in BOOLEAN, m \in Margins, b \in Rects }
  \cup
  { [rotate |-> r, margin |-> m, bounds |-> b, oddbounds |-> <<2, 2, 8, 9>>] :
      r \in BOOLEAN, m \in Margins, b \in {<<0, 0, 5, 3>>, <<1, 3, 5, 0 - 2>>} }

UnitPage(id, box) == [reader |-> id, num |-> 0, mediaBox |-> box, rotation |-> 0]

InitUnit ==
  /\ \/ \E s \in RangeStrings : call = [fn |-> "parse_range", arg |-> s]
     \/ \E s \in BoundsStrings : call = [fn |-> "parse_bounds", arg |-> s]
     \/ \E s \in BoundsStrings : call = [fn |-> "int", arg |-> s]
     \/ \E n \in 0..1, o \in GeomOptions, t \in BOOLEAN :
          call = [fn |-> "calculate_bounds", arg |-> [pagenum |-> n, options |-> o, top |-> t]]
     \/ \E n \in 0..1, o \in GeomOptions :
          call = [fn |-> "crop", arg |-> [page_num |-> n, options |-> o]]
     \/ \E b \in Rects, m \in Margins :
          call = [fn |-> "rotate", arg |-> [mediaBox |-> b, margin |-> m]]
  /\ ret = [done |-> FALSE]
  /\ prog = "none"
  /\ assertions = TRUE
  /\ argv = [opts |-> <<>>, args |-> <<>>]
  /\ doc = <<>>
  /\ pc = "unit"
  /\ options = <<>>
  /\ input = <<>>
  /\ input2 = <<>>
  /\ output = <<>>
  /\ page_nums = <<>>
  /\ status = "running"

CallParseRange ==
  /\ call.fn = "parse_range" /\ ~ret.done
  /\ ret' = [done |-> TRUE, err |-> parse_range(call.arg).err, val |-> parse_range(call.arg).val]
  /\ UNCHANGED <<call, prog, assertions, argv, doc, pc, options, input, input2, output, page_nums, status>>

CallParseBounds ==
  /\ call.fn = "parse_bounds" /\ ~ret.done
  /\ ret' = [done |-> TRUE, err |-> parse_bounds(call.arg).err, val |-> parse_bounds(call.arg).val]
  /\ UNCHANGED <<call, prog, assertions, argv, doc, pc, options, input, input2, output, page_nums, status>>

CallInt ==
  /\ call.fn = "int" /\ ~ret.done
  /\ ret' = [done |-> TRUE, err |-> int(call.arg).err, val |-> int(call.arg).val]
  /\ UNCHANGED <<call, prog, assertions, argv, doc, pc, options, input, input2, output, page_nums, status>>

CallCalculateBounds ==
  /\ call.fn = "calculate_bounds" /\ ~ret.done
  /\ LET r == calculate_bounds(call.arg.pagenum, call.arg.options, call.arg.top)
     IN ret' = [done |-> TRUE, err |-> r.err, val |-> r.val]
  /\ UNCHANGED <<call, prog, assertions, argv, doc, pc, options, input, input2, output, page_nums, status>>

CallCrop ==
  /\ call.fn = "crop" /\ ~ret.done
  /\ LET r == crop(UnitPage(1, <<0, 0, 20, 30>>), call.arg.page_num, call.arg.options)
     IN ret' = [done |-> TRUE, err |-> r.err, val |-> r.page.mediaBox]
  /\ UNCHANGED <<call, prog, assertions, argv, doc, pc, options, input, input2, output, page_nums, status>>

CallRotate ==
  /\ call.fn = "rotate" /\ ~ret.done
  /\ LET r == rotate(UnitPage(1, call.arg.mediaBox), UnitPage(2, call.arg.mediaBox),
                     [rotate |-> TRUE, margin |-> call.arg.margin])
     IN ret' = [done |-> TRUE, err |-> r.err, val |-> <<r.page, r.page2>>]
  /\ UNCHANGED <<call, prog, assertions, argv, doc, pc, options, input, input2, output, page_nums, status>>

NextUnit ==
  CallParseRange \/ CallParseBounds \/ CallInt \/ CallCalculateBounds \/ CallCrop \/ CallRotate

SpecUnit == InitUnit /\ [][NextUnit]_vars

(***************************************************************************)
(* Range specs written from token lists, for the claims about parse_range. *)
(* A token is a page number lo or a range lo-hi, optionally preceded by a  *)
(* blank.                                                                  *)
(***************************************************************************)
Tokens ==
  { [lo |-> a, hi |-> b, single |-> sg, pad |-> pd] :
      a \in 1..MaxNum, b \in 1..MaxNum, sg \in BOOLEAN, pd \in BOOLEAN }

Render(t) ==
  (IF t.pad THEN <<" ">> ELSE <<>>) \o <<Digits[t.lo + 1]>>
  \o (IF t.single THEN <<>> ELSE <<"-", Digits[t.hi + 1]>>)

RECURSIVE RenderList(_)
RenderList(tl) ==
  IF Len(tl) = 1 THEN Render(tl[1])
  ELSE Render(Head(tl)) \o <<",">> \o RenderList(Tail(tl))

Ascending(t) == [i \in 1..(t.hi - t.lo + 1) |-> t.lo - 2 + i]

RECURSIVE Indices(_)
Indices(tl) == IF tl = <<>> THEN <<>> ELSE Ascending(Head(tl)) \o Indices(Tail(tl))

IndexSet(tl) == UNION {(tl[i].lo - 1)..(tl[i].hi - 1) : i \in 1..Len(tl)}

Fits(tl) == Len(RenderList(tl)) <= MaxRangeLen

\* the token lists of at most k tokens whose text has at most MaxRangeLen
\* characters
RECURSIVE TokenLists(_)
TokenLists(k) ==
  LET one == {<<t>> : t \in {x \in Tokens : x.single => x.hi = x.lo}}
  IN IF k <= 1 THEN {tl \in one : Fits(tl)}
     ELSE TokenLists(k - 1)
          \cup {tl \in {l \o t : l \in TokenLists(k - 1), t \in one} : Fits(tl)}

Written == { [str |-> RenderList(tl), tokens |-> tl] : tl \in TokenLists(MaxTokens) }

WrittenValid == {w \in Written : \A i \in 1..Len(w.tokens) : w.tokens[i].lo <= w.tokens[i].hi}

WrittenReversed == {w \in Written : \E i \in 1..Len(w.tokens) : w.tokens[i].lo > w.tokens[i].hi}

Elements(l) == {l[i] : i \in 1..Len(l)}

\* C1: for a spec of comma-separated tokens n or a-b (positive, a <= b),
\* parse_range returns, token by token from left to right, n-1 for a number
\* and a-1, ..., b-1 ascending for a range; as a set, the union of these.
C1_ParseRangeExpands ==
  (call.fn = "parse_range" /\ ret.done) =>
    \A w \in WrittenValid :
      w.str = call.arg =>
        /\ ret.err = "none"
        /\ ret.val = Indices(w.tokens)
        /\ Elements(ret.val) = IndexSet(w.tokens)

\* the spec "1-3,2" has been parsed
C1_Witness ==
  /\ call.fn = "parse_range" /\ ret.done
  /\ call.arg = <<"1", "-", "3", ",", "2">>
  /\ ret.val = <<0, 1, 2, 1>>

\* C2: parse_range fails for every spec that contains a reversed range a-b
\* with a > b; it returns no result for it.
C2_ReversedRangeFails ==
  (call.fn = "parse_range" /\ ret.done) =>
    \A w \in WrittenReversed : w.str = call.arg => ret.err # "none"

\* C9: parse_bounds accepts a string only when it has exactly four
\* comma-separated integer components, and returns them in order; every
\* other string fails.
C9_BoundsExactlyFour ==
  (call.fn = "parse_bounds" /\ ret.done) =>
    LET parts == split(call.arg, ",")
        four == Len(parts) = 4 /\ \A i \in 1..Len(parts) : int(parts[i]).err = "none"
    IN /\ ret.err = "none" <=> four
       /\ ret.err = "none" => ret.val = [i \in 1..4 |-> int(parts[i]).val]

(***************************************************************************)
(* Halving, stated without the division operator.                          *)
(***************************************************************************)
Abs(d) == IF d < 0 THEN 0 - d ELSE d

\* the greatest q with 2q <= d
FloorHalf(d) == CHOOSE q \in (0 - Abs(d) - 1)..(Abs(d) + 1) : 2 * q <= d /\ d < 2 * q + 2

\* d / 2 rounded toward zero
TruncHalf(d) == IF d >= 0 THEN FloorHalf(d) ELSE 0 - FloorHalf(0 - d)

\* the bounds calculate_bounds and crop select for a page
Selected(pagenum, opts) ==
  IF has(opts, "oddbounds") /\ pagenum % 2 = 0 THEN opts["oddbounds"] ELSE opts["bounds"]

TopHalf(b, mid, margin) == <<b[1], mid - margin, b[3], b[4]>>

BottomHalf(b, mid, margin) == <<b[1], b[2], b[3], mid + margin>>

\* the two halves a finished call produced agree with the given halving
HalvesAre(half(_)) ==
  /\ (call.fn = "calculate_bounds" /\ ret.done /\ call.arg.options["rotate"] /\ ret.err = "none") =>
       LET b == Selected(call.arg.pagenum, call.arg.options)
           mid == half(b[4] - b[2]) + b[2]
           m == call.arg.options["margin"]
       IN ret.val = IF call.arg.top THEN TopHalf(b, mid, m) ELSE BottomHalf(b, mid, m)
  /\ (call.fn = "rotate" /\ ret.done) =>
       LET b == call.arg.mediaBox
           mid == half(b[4] - b[2]) + b[2]
       IN /\ ret.err = "none"
          /\ ret.val[1].mediaBox = TopHalf(b, mid, call.arg.margin)
          /\ ret.val[2].mediaBox = BottomHalf(b, mid, call.arg.margin)

\* C6 as claimed: the halves are (left, midline - margin, right, top) and
\* (left, bottom, right, midline + margin) with midline = (top - bottom) / 2
\* + bottom, the division rounding toward zero.
C6_TruncatingMidline == HalvesAre(TruncHalf)

\* C6 as amended: the same halves, the division rounding toward minus
\* infinity (floor), for every integer rectangle and every integer margin.
C6_FloorMidline == HalvesAre(FloorHalf)

\* the top half of a rectangle with top < bottom and an odd height has been
\* computed with a negative margin
C6_Witness ==
  /\ call.fn = "calculate_bounds" /\ ret.done /\ ret.err = "none"
  /\ call.arg.options["rotate"] /\ call.arg.top
  /\ call.arg.options["margin"] < 0
  /\ LET b == Selected(call.arg.pagenum, call.arg.options)
     IN b[4] < b[2] /\ (b[4] - b[2]) % 2 = 1

(***************************************************************************)
(* Claims about a run of main.                                             *)
(***************************************************************************)
PageIndices == 0..(Len(doc) - 1)

\* the positions of the output pages that come from input page p
Emitted(p) == {i \in 1..Len(output) : output[i].num = p}

Parsed == has(options, "intact")

\* C3: no output page comes from a page index of the exclude list, whether
\* or not the index is also in the intact list and whatever rotate, bounds,
\* oddbounds and margin are.
C3_ExcludedNeverEmitted ==
  \A i \in 1..Len(output) : ~in(output[i].num, options["exclude"])

\* a finished run with rotate and bounds in which a page was both excluded
\* and intact, and other pages were emitted
C3_Witness ==
  /\ status = "return 0" /\ output # <<>>
  /\ options["rotate"] /\ has(options, "bounds")
  /\ \E p \in PageIndices : in(p, options["exclude"]) /\ in(p, options["intact"])

\* C4: a page that is intact and not excluded is emitted exactly once, with
\* the rectangle and the rotation of the input page, whatever rotate,
\* bounds, oddbounds and margin are.
C4_IntactPagesUnchanged ==
  \A p \in PageIndices :
    (Parsed /\ in(p, options["intact"]) /\ ~in(p, options["exclude"])) =>
      /\ Cardinality(Emitted(p)) <= 1
      /\ status = "return 0" => Cardinality(Emitted(p)) = 1
      /\ \A i \in Emitted(p) :
           /\ output[i].mediaBox = doc[p + 1].mediaBox
           /\ output[i].rotation = doc[p + 1].rotation

\* a finished run with rotate, bounds and a margin that emitted an intact
\* page next to a sliced one
C4_Witness ==
  /\ status = "return 0"
  /\ options["rotate"] /\ has(options, "bounds") /\ options["margin"] # 0
  /\ \E p \in PageIndices :
       in(p, options["intact"]) /\ ~in(p, options["exclude"]) /\ Emitted(p) # {}
  /\ \E p \in PageIndices : Cardinality(Emitted(p)) = 2

\* C5: a cropped page p gets oddbounds when oddbounds is configured and
\* p % 2 = 0, and bounds otherwise, with and without rotation (with
\* rotation the top half keeps left, right and top of the selected bounds,
\* the bottom half left, bottom and right).
C5_BoundSelection ==
  \A i \in 1..Len(output) :
    LET o == output[i]
    IN (has(options, "bounds") /\ ~in(o.num, options["intact"])) =>
         LET b == Selected(o.num, options)
             box == o.mediaBox
         IN IF options["rotate"]
              THEN /\ o.reader = 1 => <<box[1], box[3], box[4]>> = <<b[1], b[3], b[4]>>
                   /\ o.reader = 2 => <<box[1], box[2], box[3]>> = <<b[1], b[2], b[3]>>
              ELSE box = b

\* a finished run with oddbounds that cropped both a page of even index and
\* a page of odd index
C5_Witness ==
  /\ status = "return 0" /\ has(options, "oddbounds")
  /\ \E i, j \in 1..Len(output) :
       /\ output[i].num % 2 = 0 /\ ~in(output[i].num, options["intact"])
       /\ output[j].num % 2 = 1 /\ ~in(output[j].num, options["intact"])

GivesOption(names) == \E i \in 1..Len(argv.opts) : argv.opts[i].opt \in names

OddboundsWithoutBounds ==
  GivesOption({"-o", "--oddbounds"}) /\ ~GivesOption({"-b", "--bounds"})

\* the argument of every option converts (no int() or unpacking failure)
ArgumentsConvert ==
  \A i \in 1..Len(argv.opts) :
    LET o == argv.opts[i]
    IN /\ o.opt \in {"-b", "--bounds", "-o", "--oddbounds"} => parse_bounds(o.arg).err = "none"
       /\ o.opt \in {"-e", "--exclude", "-i", "--intact"} => parse_range(o.arg).err = "none"
       /\ o.opt \in {"-m", "--margin"} => int(o.arg).err = "none"

\* C7 as claimed: whenever oddbounds is given without bounds, handle_options
\* fails with GetoptError and main returns 2 with no page read or emitted.
C7_OddboundsNeedsBounds ==
  (OddboundsWithoutBounds /\ pc # "start") =>
    pc = "done" /\ status = "return 2" /\ input = <<>> /\ output = <<>>

\* C7 as amended: whenever oddbounds is given without bounds, handle_options
\* fails and no page is read or emitted; the failure is GetoptError (main
\* returns 2) when every option argument converts, and the ValueError of
\* the first argument that does not convert (which main does not catch)
\* otherwise.
C7_OddboundsNeedsBoundsOrValueError ==
  (OddboundsWithoutBounds /\ pc # "start") =>
    /\ pc = "done" /\ input = <<>> /\ output = <<>>
    /\ status = IF ArgumentsConvert THEN "return 2" ELSE "ValueError"

\* main returned 2 for oddbounds without bounds, given with both file names
\* and three other options
C7_Witness ==
  /\ pc = "done" /\ status = "return 2"
  /\ OddboundsWithoutBounds
  /\ Len(argv.args) = 2 /\ Len(argv.opts) >= 4

\* an option argument the documented formats do not allow
Malformed(o) ==
  \/ /\ o.opt \in {"-b", "--bounds", "-o", "--oddbounds"}
     /\ \/ parse_bounds(o.arg).err # "none"
        \/ Len(split(o.arg, ",")) # 4
  \/ /\ o.opt \in {"-e", "--exclude", "-i", "--intact"}
     /\ \/ parse_range(o.arg).err # "none"
        \/ \E k \in 1..Len(split(o.arg, ",")) :
             LET parts == split(split(o.arg, ",")[k], "-")
             IN Len(parts) = 2 /\ int(parts[1]).val > int(parts[2]).val
  \/ /\ o.opt \in {"-m", "--margin"}
     /\ int(o.arg).err # "none"

\* C8: every malformed range spec, bounds spec or margin is raised during
\* handle_options, before a page is read, and no run that ends in an error
\* has emitted an output page.
C8_ParsingErrorsAreEager ==
  /\ (pc # "start" /\ \E i \in 1..Len(argv.opts) : Malformed(argv.opts[i])) =>
       /\ pc = "done" /\ status \in {"ValueError", "return 2"}
       /\ input = <<>> /\ output = <<>>
  /\ status \notin {"running", "return 0"} => output = <<>>

\* the rectangle a page has when it is sliced
BoxBeforeSlicing(p) == IF has(options, "bounds") THEN Selected(p, options) ELSE doc[p + 1].mediaBox

\* the number of output pages page p contributes
Contribution(p) ==
  IF in(p, options["exclude"]) THEN 0
  ELSE IF options["rotate"] /\ ~in(p, options["intact"]) THEN 2 ELSE 1

\* C10: output pages are in ascending input index; with rotate a page that
\* is neither excluded nor intact gives two consecutive pages, top half
\* then bottom half, every other non-excluded page gives one; a finished
\* run has emitted (non-excluded pages) + (non-excluded, non-intact pages
\* when rotate is set) pages.
C10_OutputOrder ==
  /\ \A i, j \in 1..Len(output) : i < j => output[i].num <= output[j].num
  /\ Parsed =>
       \A p \in PageIndices :
         /\ Cardinality(Emitted(p)) \in {0, Contribution(p)}
         /\ status = "return 0" => Cardinality(Emitted(p)) = Contribution(p)
         /\ Cardinality(Emitted(p)) = 2 =>
              LET i == CHOOSE k \in Emitted(p) : k + 1 \in Emitted(p)
                  top == output[i]
                  bottom == output[i + 1]
                  b == BoxBeforeSlicing(p)
              IN /\ top.reader = 1 /\ bottom.reader = 2
                 /\ top.mediaBox[4] = b[4] /\ bottom.mediaBox[2] = b[2]
                 /\ top.mediaBox[2] + options["margin"] = bottom.mediaBox[4] - options["margin"]
                 /\ top.rotation = doc[p + 1].rotation - 90
                 /\ bottom.rotation = doc[p + 1].rotation - 90
  /\ status = "return 0" =>
       Len(output) = Cardinality({p \in PageIndices : ~in(p, options["exclude"])})
                     + (IF options["rotate"]
                          THEN Cardinality({p \in PageIndices :
                                 ~in(p, options["exclude"]) /\ ~in(p, options["intact"])})
                          ELSE 0)

\* a finished run with rotate over three pages: one sliced, one excluded,
\* one intact
C10_Witness ==
  /\ status = "return 0" /\ options["rotate"] /\ Len(doc) = 3 /\ Len(output) = 3
  /\ \E p, q, r \in PageIndices :
       /\ Cardinality(Emitted(p)) = 2
       /\ in(q, options["exclude"])
       /\ in(r, options["intact"]) /\ Cardinality(Emitted(r)) = 1

\* C11: in pdfmunge, with rotate set and no bounds configured, the run does
\* not fail in the page loop, and every page that is neither excluded nor
\* intact is sliced from the rectangle (left, bottom, right, top) it has in
\* the input, uncropped: the top half is (left, midline - margin, right,
\* top), the bottom half (left, bottom, right, midline + margin), where
\* midline = bottom + (top - bottom) / 2 as the code divides.
C11_SlicesWithoutBounds ==
  (prog = "pdfmunge" /\ Parsed /\ options["rotate"] /\ ~has(options, "bounds")) =>
    /\ status \in {"running", "return 0", "return 1"}
    /\ \A p \in PageIndices :
         (~in(p, options["exclude"]) /\ ~in(p, options["intact"])) =>
           LET b == doc[p + 1].mediaBox
               mid == FloorHalf(b[4] - b[2]) + b[2]
           IN /\ Cardinality(Emitted(p)) \in {0, 2}
              /\ status = "return 0" => Cardinality(Emitted(p)) = 2
              /\ Cardinality(Emitted(p)) = 2 =>
                   \E i, j \in Emitted(p) : output[i].reader = 1 /\ output[j].reader = 2
              /\ \A i \in Emitted(p) :
                   /\ output[i].reader = 1 =>
                        output[i].mediaBox = TopHalf(b, mid, options["margin"])
                   /\ output[i].reader = 2 =>
                        output[i].mediaBox = BottomHalf(b, mid, options["margin"])

\* a finished run of pdfmunge with rotate, a margin and no bounds that sliced
\* a page of odd height and a page of even height
C11_Witness ==
  /\ prog = "pdfmunge" /\ status = "return 0"
  /\ options["rotate"] /\ ~has(options, "bounds") /\ options["margin"] # 0
  /\ \E p, q \in PageIndices :
       /\ Cardinality(Emitted(p)) = 2 /\ Cardinality(Emitted(q)) = 2
       /\ (doc[p + 1].mediaBox[4] - doc[p + 1].mediaBox[2]) % 2 = 1
       /\ (doc[q + 1].mediaBox[4] - doc[q + 1].mediaBox[2]) % 2 = 0

(***************************************************************************)
(* The page loop of either program as a function of the options and the    *)
(* input document: the error that ended it, if any, and the pages added to *)
(* the writer.                                                             *)
(***************************************************************************)
\* the indices the loop of program p walks
pages_of(p, opts, file) ==
  IF p = "pdfmunge" THEN not_excluded(range(0, Len(file)), opts["exclude"])
  ELSE range(0, Len(file))

\* the loop body of program p for page n of a freshly opened file
body(p, n, opts, file) ==
  IF p = "pdfmunge"
    THEN munge_page(PdfFileReader(file, 1)[n + 1],
                    IF opts["rotate"] THEN PdfFileReader(file, 2)[n + 1] ELSE None, n, opts)
    ELSE slice_page(PdfFileReader(file, 1)[n + 1],
                    IF opts["rotate"] THEN PdfFileReader(file, 2)[n + 1] ELSE None, n, opts)

RECURSIVE loop(_, _, _, _, _)
loop_rest(r, p, nums, opts, file, out) ==
  IF r.err # "none" THEN [err |-> r.err, output |-> out \o r.added]
  ELSE loop(p, nums, opts, file, out \o r.added)

loop(p, nums, opts, file, out) ==
  IF nums = <<>> THEN [err |-> "none", output |-> out]
  ELSE loop_rest(body(p, Head(nums), opts, file), p, Tail(nums), opts, file, out)

\* the program the run is not executing
Other == IF prog = "pdfmunge" THEN "pdfslice" ELSE "pdfmunge"

\* C12: for every input document and every configuration handle_options
\* accepts in which bounds is configured whenever rotate is set, a run of one
\* program that got past opening its files ends with the output sequence
\* (pages, order, rectangles, rotations) the other program produces from the
\* same options and document, and returns 0 exactly when the other does.
C12_ImplementationsAgree ==
  (pc = "done" /\ Parsed /\ status # "return 1"
     /\ (options["rotate"] => has(options, "bounds"))) =>
    /\ output = loop(Other, pages_of(Other, options, doc), options, doc, <<>>).output
    /\ status = "return 0" <=>
         loop(Other, pages_of(Other, options, doc), options, doc, <<>>).err = "none"

\* every configured bounds list has four components
FourComponents ==
  /\ has(options, "bounds") => Len(options["bounds"]) = 4
  /\ has(options, "oddbounds") => Len(options["oddbounds"]) = 4

\* the agreement restricted to configurations whose bounds lists have four
\* components
AgreeOnFourComponents == FourComponents => C12_ImplementationsAgree

\* a finished run of pdfslice with rotate, four-component bounds and
\* oddbounds and a margin over three pages that sliced pages of even index
\* (oddbounds) and a page of odd index (bounds)
AgreeOnFourComponents_Witness ==
  /\ prog = "pdfslice" /\ status = "return 0" /\ Len(doc) = 3 /\ FourComponents
  /\ options["rotate"] /\ has(options, "oddbounds") /\ options["margin"] # 0
  /\ \E p, q \in PageIndices :
       /\ p % 2 = 0 /\ Cardinality(Emitted(p)) = 2
       /\ q % 2 = 1 /\ Cardinality(Emitted(q)) = 2

====
